---- MODULE Spec2Model ----
(***************************************************************************)
(* A model of the segment rendering layer (src/src/segments-layer.js) and  *)
(* of the mouse drag handler (src/unnamed/part_000) of peaks.js.           *)
(*                                                                         *)
(* SegmentsLayer keeps a map from segment id to segment shape (the proxy   *)
(* of the segment on screen) and reacts to the notifications of the        *)
(* segment store.  MouseDragHandler turns press / move / release events    *)
(* into calls of the caller's handlers.                                    *)
(***************************************************************************)
EXTENDS Integers, Sequences, FiniteSets, TLC

(***************************************************************************)
(* Bounds of the model.                                                    *)
(***************************************************************************)
\* Number of segment identities the store can hold.
NumSegments == 2
\* Times run over 0 .. MaxTime (seconds).
MaxTime == 2
\* The view's frame offset runs over 0 .. MaxFrameOffset (pixels).
MaxFrameOffset == 1
\* Shapes that a handler dropped from the map but left in the layer.
MaxOrphans == 1

\* Client coordinates run over 0 .. MaxClientX and 0 .. MaxClientY, and the
\* container's origin over 0 .. MaxLeft and 0 .. MaxTop, all counted in
\* fractions of a pixel: SubPixels of them make one pixel.
SubPixels  == 2
MaxClientX == 8
MaxClientY == 1
MaxLeft    == 1
MaxTop     == 1

SegmentIds == 1 .. NumSegments
Times      == 0 .. MaxTime

\* The view: its width in pixels and the seconds one pixel stands for.
Width        == 1
TimePerPixel == 1

ViewNames == {"zoomview", "overview"}

\* The six topics the layer subscribes to in its constructor.
Topics == {"segments.update", "segments.add", "segments.remove",
           "segments.hide", "segments.remove_all", "segments.dragged"}

VARIABLES
  viewName,       \* this._view.getName()
  frameOffset,    \* this._view.getFrameOffset()
  segments,       \* the segment objects: id -> [startTime, endTime, hidden, inStore]
  segmentShapes,  \* this._segmentShapes: id -> [inLayer, destroyed, hidden]
  orphans,        \* children of this._layer that the map no longer holds, per id
  subscriptions,  \* the topics this._peaks still delivers to the layer
  tornDown,       \* destroy() has been called
  op              \* what the last operation did (name, redraws, shapes touched)

layerVars == <<viewName, frameOffset, segments, segmentShapes, orphans,
               subscriptions, tornDown, op>>

VARIABLES
  options,            \* this._options
  _dragging,          \* this._dragging
  _mouseDownClientX,  \* this._mouseDownClientX
  _mouseDownClientY,  \* this._mouseDownClientY
  windowListeners,    \* the event types window delivers to the handler
  containerPos,       \* this._stage.getContainer().getBoundingClientRect()
  far,                \* a move of this session was more than 3 pixels from the origin
  farSincePress,      \* a move since the last press was more than 3 pixels from its origin
  ev                  \* the last event: type, target, coordinates, the handler calls it caused

dragVars == <<options, _dragging, _mouseDownClientX, _mouseDownClientY,
              windowListeners, containerPos, far, farSincePress, ev>>

(***************************************************************************)
(* Helpers on functions with a varying domain (JavaScript objects).        *)
(***************************************************************************)
Put(f, k, v)  == [x \in DOMAIN f \cup {k} |-> IF x = k THEN v ELSE f[x]]
Delete(f, k)  == [x \in DOMAIN f \ {k} |-> f[x]]
EmptyObject   == [x \in {} |-> 0]
ZeroCount     == [id \in SegmentIds |-> 0]
Incr(c, id)   == [c EXCEPT ![id] = @ + 1]

RECURSIVE ForEach(_, _, _)
ForEach(Op(_, _), S, R) ==
  IF S = {} THEN R
  ELSE LET e == CHOOSE e \in S : TRUE
       IN  ForEach(Op, S \ {e}, Op(R, e))

(***************************************************************************)
(* The collaborators of the layer: the view, the segment and the store.    *)
(***************************************************************************)
pixelsToTime(pixels) == pixels * TimePerPixel

frameStartTime == pixelsToTime(frameOffset)
frameEndTime   == pixelsToTime(frameOffset + Width)

\* Segment.isVisible: the segment overlaps [startTime, endTime).
isVisible(segment, startTime, endTime) ==
  segment.startTime < endTime /\ startTime < segment.endTime

\* peaks.segments.find: the ids of the stored segments that overlap the range.
find(segs, startTime, endTime) ==
  {id \in DOMAIN segs : segs[id].inStore /\ isVisible(segs[id], startTime, endTime)}

StoreIds(segs) == {id \in DOMAIN segs : segs[id].inStore}

\* A segment object lives as long as the store or a shape refers to it.
Collect(segs, shapes) ==
  [id \in {i \in DOMAIN segs : segs[i].inStore \/ i \in DOMAIN shapes} |-> segs[id]]

\* The range recorded when updateSegments has not been called.
NoRange == <<-1, -1>>

(***************************************************************************)
(* The run state R of one handler: the layer's fields plus the counts of   *)
(* what the handler did.                                                   *)
(***************************************************************************)
Begin == [shapes       |-> segmentShapes,
          segs         |-> segments,
          orphans      |-> orphans,
          draws        |-> 0,
          created      |-> ZeroCount,
          repositioned |-> {},
          destroyCalls |-> ZeroCount,
          range        |-> NoRange,
          count        |-> 0]

\* The redraw that does not ask which view the layer belongs to.
draw_InEveryView(R) == [R EXCEPT !.draws = @ + 1]

\* SegmentsLayer.prototype.draw
draw(R) ==
  IF viewName = "overview" THEN R
  ELSE [R EXCEPT !.draws = @ + 1]

\* SegmentsLayer.prototype._addSegmentShape
_addSegmentShape(R, id) ==
  LET segmentShape == [inLayer   |-> viewName # "overview",
                       destroyed |-> FALSE,
                       hidden    |-> FALSE]
      replaced == id \in DOMAIN R.shapes /\ R.shapes[id].inLayer
  IN  [R EXCEPT !.shapes  = Put(R.shapes, id, segmentShape),
                !.orphans = IF replaced THEN Incr(R.orphans, id) ELSE @,
                !.created = Incr(R.created, id)]

\* SegmentsLayer.prototype._findOrAddSegmentShape
_findOrAddSegmentShape(R, id) ==
  IF id \notin DOMAIN R.shapes THEN _addSegmentShape(R, id) ELSE R

\* SegmentsLayer.prototype._updateSegment
_updateSegment(R, id) ==
  LET R1 == _findOrAddSegmentShape(R, id)
  IN  [R1 EXCEPT !.repositioned = @ \cup {id}]

\* The removal that does not look whether the map holds a shape.
_removeSegment_Unchecked(R, id) ==
  [R EXCEPT !.destroyCalls = Incr(R.destroyCalls, id),
            !.shapes       = Delete(R.shapes, id)]

\* SegmentsLayer.prototype._removeSegment
_removeSegment(R, id) ==
  IF id \in DOMAIN R.shapes
  THEN [R EXCEPT !.destroyCalls = Incr(R.destroyCalls, id),
                 !.shapes       = Delete(R.shapes, id)]
  ELSE R

\* The scan that keeps every shape, whatever its segment.
_removeIfInvisible_KeepsAll(R, id, startTime, endTime) == R

\* The body of the loop of _removeInvisibleSegments.
_removeIfInvisible(R, id, startTime, endTime) ==
  IF ~isVisible(R.segs[id], startTime, endTime)
  THEN [_removeSegment(R, id) EXCEPT !.count = @ + 1]
  ELSE R

\* SegmentsLayer.prototype._removeInvisibleSegments; the number of segments
\* removed is returned in R.count.
_removeInvisibleSegments(R, startTime, endTime) ==
  LET Step(Q, id) == _removeIfInvisible(Q, id, startTime, endTime)
  IN  ForEach(Step, DOMAIN R.shapes, [R EXCEPT !.count = 0])

\* SegmentsLayer.prototype.updateSegments
updateSegments(R, startTime, endTime) ==
  LET found == find(R.segs, startTime, endTime)
      R1    == ForEach(_updateSegment, found, R)
      R2    == _removeInvisibleSegments(R1, startTime, endTime)
      count == Cardinality(found) + R2.count
      R3    == [R2 EXCEPT !.range = <<startTime, endTime>>]
  IN  IF count > 0 THEN draw(R3) ELSE R3

\* SegmentsLayer.prototype._hideSegment
_hideSegment(R, id) ==
  IF id \in DOMAIN R.shapes
  THEN [R EXCEPT !.shapes[id].hidden = TRUE,
                 !.segs[id].hidden   = TRUE]
  ELSE R

\* The update that keeps the shape the segment had, and only adds one when
\* the segment has none and is visible.
_onSegmentsUpdate_KeepsOld(R, id) ==
  LET visible == isVisible(R.segs[id], frameStartTime, frameEndTime)
  IN  IF visible /\ id \notin DOMAIN R.shapes
      THEN draw(_addSegmentShape(R, id))
      ELSE R

\* SegmentsLayer.prototype._onSegmentsUpdate
_onSegmentsUpdate(R, id) ==
  LET hadShape == id \in DOMAIN R.shapes
      R1 == IF hadShape THEN _removeSegment(R, id) ELSE R
      visible == isVisible(R.segs[id], frameStartTime, frameEndTime)
      R2 == IF visible THEN _addSegmentShape(R1, id) ELSE R1
      redraw == hadShape \/ visible
  IN  IF redraw THEN updateSegments(R2, frameStartTime, frameEndTime) ELSE R2

\* The loop body that adds a shape for every added segment.
_addIfVisible_Always(R, id) == _addSegmentShape(R, id)

\* The body of the loop of _onSegmentsAdd.
_addIfVisible(R, id) ==
  IF isVisible(R.segs[id], frameStartTime, frameEndTime)
  THEN _addSegmentShape(R, id)
  ELSE R

\* SegmentsLayer.prototype._onSegmentsAdd
_onSegmentsAdd(R, ids) ==
  updateSegments(ForEach(_addIfVisible, ids, R), frameStartTime, frameEndTime)

\* SegmentsLayer.prototype._onSegmentsHide
_onSegmentsHide(R, ids) == draw(ForEach(_hideSegment, ids, R))

\* SegmentsLayer.prototype._onSegmentsRemove
_onSegmentsRemove(R, ids) == draw(ForEach(_removeSegment, ids, R))

\* SegmentsLayer.prototype._onSegmentsRemoveAll
_onSegmentsRemoveAll(R) ==
  draw([R EXCEPT !.shapes = EmptyObject, !.orphans = ZeroCount])

\* The drag handler that runs a whole pass over the frame instead.
_onSegmentsDragged_Syncs(R, id) ==
  updateSegments(R, frameStartTime, frameEndTime)

\* SegmentsLayer.prototype._onSegmentsDragged
_onSegmentsDragged(R, id) == draw(_updateSegment(R, id))

\* segmentShape.destroy() as destroy() calls it: the shape stays in the map.
_destroyShape(R, id) ==
  [R EXCEPT !.shapes[id].destroyed = TRUE,
            !.shapes[id].inLayer   = FALSE,
            !.destroyCalls         = Incr(R.destroyCalls, id)]

\* The peaks.off calls of SegmentsLayer.prototype.destroy.
Unsubscribed ==
  {"segments.update", "segments.add", "segments.remove",
   "segments.remove_all", "segments.dragged"}

\* SegmentsLayer.prototype.destroy: the shapes of the map are destroyed.
destroy(R) == ForEach(_destroyShape, DOMAIN R.shapes, R)

(***************************************************************************)
(* The operations of the layer.  A store operation changes the store and   *)
(* emits its notification; the layer's handler runs when the layer is      *)
(* still subscribed to the topic.                                          *)
(***************************************************************************)
\* What op records of an operation that ran no code of the layer.
Idle(name) ==
  [name         |-> name,
   handled      |-> FALSE,
   args         |-> {},
   range        |-> NoRange,
   draws        |-> 0,
   created      |-> ZeroCount,
   repositioned |-> {},
   destroyCalls |-> ZeroCount,
   before       |-> DOMAIN segmentShapes]

\* The state after a handler (or no handler) has produced run state R.
Finish(name, handled, args, R) ==
  /\ segmentShapes' = R.shapes
  /\ segments'      = Collect(R.segs, R.shapes)
  /\ orphans'       = R.orphans
  /\ op' = [name         |-> name,
            handled      |-> handled,
            args         |-> args,
            range        |-> R.range,
            draws        |-> R.draws,
            created      |-> R.created,
            repositioned |-> R.repositioned,
            destroyCalls |-> R.destroyCalls,
            before       |-> DOMAIN segmentShapes]
  /\ UNCHANGED dragVars

\* Emit a notification whose handler is Handler.
Emit(topic, args, R0, Handler(_)) ==
  IF topic \in subscriptions
  THEN Finish(topic, TRUE, args, Handler(R0))
  ELSE Finish(topic, FALSE, args, R0)

NewSegment(s, e) ==
  [startTime |-> s, endTime |-> e, hidden |-> FALSE, inStore |-> TRUE]

RECURSIVE PutAll(_, _)
PutAll(segs, news) ==
  IF DOMAIN news = {} THEN segs
  ELSE LET id == CHOOSE id \in DOMAIN news : TRUE
       IN  PutAll(Put(segs, id, news[id]), Delete(news, id))

TimeRanges == {r \in Times \X Times : r[1] <= r[2]}

\* peaks.segments.add(...): new segments enter the store, segments.add.
SegmentsAdd ==
  \E ids \in SUBSET SegmentIds \ {{}} :
    /\ ids \cap DOMAIN segments = {}
    /\ \E news \in [ids -> TimeRanges] :
         LET R0 == [Begin EXCEPT !.segs =
                      PutAll(segments, [id \in ids |-> NewSegment(news[id][1], news[id][2])])]
             Handler(R) == _onSegmentsAdd(R, ids)
         IN  Emit("segments.add", ids, R0, Handler)
    /\ UNCHANGED <<viewName, frameOffset, subscriptions, tornDown>>

\* segment.update(...): a stored segment changes its times, segments.update.
SegmentsUpdate ==
  \E id \in StoreIds(segments), r \in TimeRanges :
    /\ LET R0 == [Begin EXCEPT !.segs[id].startTime = r[1],
                               !.segs[id].endTime   = r[2]]
           Handler(R) == _onSegmentsUpdate(R, id)
       IN  Emit("segments.update", {id}, R0, Handler)
    /\ UNCHANGED <<viewName, frameOffset, subscriptions, tornDown>>

\* peaks.segments.remove...(...): segments leave the store, segments.remove.
SegmentsRemove ==
  \E ids \in SUBSET StoreIds(segments) \ {{}} :
    /\ LET R0 == [Begin EXCEPT !.segs =
                    [id \in DOMAIN segments |->
                       IF id \in ids THEN [segments[id] EXCEPT !.inStore = FALSE]
                       ELSE segments[id]]]
           Handler(R) == _onSegmentsRemove(R, ids)
       IN  Emit("segments.remove", ids, R0, Handler)
    /\ UNCHANGED <<viewName, frameOffset, subscriptions, tornDown>>

\* The store asks for segments to be hidden, segments.hide.
SegmentsHide ==
  \E ids \in SUBSET StoreIds(segments) \ {{}} :
    /\ LET Handler(R) == _onSegmentsHide(R, ids)
       IN  Emit("segments.hide", ids, Begin, Handler)
    /\ UNCHANGED <<viewName, frameOffset, subscriptions, tornDown>>

\* peaks.segments.removeAll(): the store is emptied, segments.remove_all.
SegmentsRemoveAll ==
  /\ LET R0 == [Begin EXCEPT !.segs =
                  [id \in DOMAIN segments |-> [segments[id] EXCEPT !.inStore = FALSE]]]
     IN  Emit("segments.remove_all", {}, R0, _onSegmentsRemoveAll)
  /\ UNCHANGED <<viewName, frameOffset, subscriptions, tornDown>>

\* An editing drag moves a stored segment, segments.dragged.
SegmentsDragged ==
  \E id \in StoreIds(segments), r \in TimeRanges :
    /\ LET R0 == [Begin EXCEPT !.segs[id].startTime = r[1],
                               !.segs[id].endTime   = r[2]]
           Handler(R) == _onSegmentsDragged(R, id)
       IN  Emit("segments.dragged", {id}, R0, Handler)
    /\ UNCHANGED <<viewName, frameOffset, subscriptions, tornDown>>

\* The view calls updateSegments(startTime, endTime).
UpdateSegments ==
  \E startTime \in Times, endTime \in Times :
    /\ startTime < endTime
    /\ Finish("updateSegments", TRUE, {}, updateSegments(Begin, startTime, endTime))
    /\ UNCHANGED <<viewName, frameOffset, subscriptions, tornDown>>

\* The view calls destroy().
Destroy ==
  /\ Finish(IF op.name \in {"destroy", "destroy again"}
            THEN "destroy again" ELSE "destroy",
            TRUE, {}, destroy(Begin))
  /\ subscriptions' = subscriptions \ Unsubscribed
  /\ tornDown' = TRUE
  /\ UNCHANGED <<viewName, frameOffset>>

\* The view scrolls: its frame offset changes.
Scroll ==
  \E offset \in 0 .. MaxFrameOffset :
    /\ offset # frameOffset
    /\ frameOffset' = offset
    /\ op' = Idle("scroll")
    /\ UNCHANGED <<viewName, segments, segmentShapes, orphans,
                   subscriptions, tornDown>>
    /\ UNCHANGED dragVars

\* The store announces, with segments.add, a segment that it already holds.
SegmentsAddExisting ==
  \E id \in StoreIds(segments) :
    /\ orphans[id] < MaxOrphans
    /\ LET Handler(R) == _onSegmentsAdd(R, {id})
       IN  Emit("segments.add", {id}, Begin, Handler)
    /\ UNCHANGED <<viewName, frameOffset, subscriptions, tornDown>>

LayerInit ==
  /\ viewName \in ViewNames
  /\ frameOffset = 0
  /\ segments = EmptyObject
  /\ segmentShapes = EmptyObject
  /\ orphans = ZeroCount
  /\ subscriptions = Topics
  /\ tornDown = FALSE
  /\ op = Idle("new")

(***************************************************************************)
(* MouseDragHandler (src/unnamed/part_000).                                *)
(***************************************************************************)
\* The value of a coordinate that the event does not carry (undefined), and
\* of the arithmetic on it (NaN).
NaN == 0 - 100

\* The value of this._mouseDownClientX and Y before the first press.
Null == 0 - 2

ClientXs == 0 .. MaxClientX
ClientYs == 0 .. MaxClientY

\* Math.floor of a coordinate.
Floor(v) == (v \div SubPixels) * SubPixels

\* The handlers that the caller passed to the constructor.
handlers == {"onMouseDown", "onMouseMove", "onMouseUp"}

\* The drawable tree under the stage: a layer with a draggable marker, which
\* has a child, and with the waveform, which is not draggable.
Nodes == {"stage", "layer", "marker", "handle", "waveform"}
Layers == {"layer"}
parent == [n \in Nodes |->
             CASE n = "stage"    -> "null"
               [] n = "layer"    -> "stage"
               [] n = "marker"   -> "layer"
               [] n = "handle"   -> "marker"
               [] n = "waveform" -> "layer"]
draggable == [n \in Nodes |-> n = "marker"]

\* getMarkerObject
RECURSIVE getMarkerObject(_)
getMarkerObject(obj) ==
  IF parent[obj] = "null" THEN "null"
  ELSE IF parent[obj] \in Layers THEN obj
  ELSE getMarkerObject(parent[obj])

\* this._handleDrag, which the constructor sets and nothing reads.
_handleDrag == FALSE

\* this.__handleDrag, which _mouseDown reads and nothing sets: undefined.
__handleDrag == FALSE

\* The threshold of _mouseMove, in pixels.
START_DRAG_DELTA == 3

\* MouseDragHandler.prototype._getMousePosX
_getMousePosX(clientX) ==
  IF clientX = NaN THEN NaN ELSE clientX - containerPos.left

\* MouseDragHandler.prototype._getMousePosY
_getMousePosY(clientY) ==
  IF clientY = NaN THEN NaN ELSE clientY - containerPos.top

\* delta > 3 in _mouseMove, with both sides of the comparison squared.
DeltaExceeds(clientX, clientY) ==
  LET dx == clientX - _mouseDownClientX
      dy == clientY - _mouseDownClientY
  IN  dx * dx + dy * dy >
        (START_DRAG_DELTA * SubPixels) * (START_DRAG_DELTA * SubPixels)

\* The flag that follows the pointer instead of staying set.
_draggingAfterMove_NotSticky(dragging, exceeds) == exceeds

\* this._dragging after the test of _mouseMove.
_draggingAfterMove(dragging, exceeds) ==
  IF exceeds THEN TRUE ELSE dragging

\* The window.addEventListener calls of _mouseDown.
PressListeners == {"mousemove", "touchmove", "mouseup", "touchend", "blur"}

\* The release that leaves the touchmove listener in place.
ListenersAfterMouseUp_KeepsTouchMove(listeners) ==
  listeners \ {"mousemove", "mouseup", "touchend", "blur"}

\* The window.removeEventListener calls of _mouseUp.
ListenersAfterMouseUp(listeners) ==
  listeners \ {"mousemove", "touchmove", "mouseup", "touchend", "blur"}

\* A call of one of the caller's handlers, with what isDragging() and the
\* window listeners were when it was made.
Call(handler, kind, x, y) ==
  [handler   |-> handler,
   kind      |-> kind,
   x         |-> x,
   y         |-> y,
   dragging  |-> _dragging,
   listening |-> windowListeners # {}]

\* MouseDragHandler.prototype._mouseDown for an event of the stage.
\* x, y: evt.clientX, evt.clientY, or the coordinates of evt.touches[0].
_mouseDown(type, target, x, y) ==
  LET marker == getMarkerObject(target)
      ignored == __handleDrag /\ marker # "null" /\ draggable[marker]
      downX == IF type = "touchstart" THEN Floor(x) ELSE x
      downY == IF type = "touchstart" THEN Floor(y) ELSE y
      evtClientY == IF type = "touchstart" THEN NaN ELSE y
  IN  IF ignored
      THEN /\ ev' = [type |-> type, target |-> target, delivered |-> TRUE,
                     x |-> x, y |-> y, far |-> far,
                     exceeds |-> FALSE, calls |-> <<>>]
           /\ UNCHANGED <<_dragging, _mouseDownClientX, _mouseDownClientY,
                          windowListeners, far, farSincePress>>
      ELSE /\ _mouseDownClientX' = downX
           /\ _mouseDownClientY' = downY
           /\ ev' = [type |-> type, target |-> target, delivered |-> TRUE,
                     x |-> x, y |-> y, far |-> far,
                     exceeds |-> FALSE,
                     calls |->
                       IF "onMouseDown" \in handlers
                       THEN <<Call("onMouseDown", "", _getMousePosX(downX),
                                   _getMousePosY(evtClientY))>>
                       ELSE <<>>]
           /\ windowListeners' = windowListeners \cup PressListeners
           /\ far' = IF windowListeners = {} THEN FALSE ELSE far
           /\ farSincePress' = FALSE
           /\ UNCHANGED _dragging

\* An event of window that no listener takes.
NotDelivered(type) ==
  /\ ev' = [type |-> type, target |-> "window", delivered |-> FALSE,
            x |-> NaN, y |-> NaN, far |-> far,
            exceeds |-> FALSE, calls |-> <<>>]
  /\ UNCHANGED <<_dragging, _mouseDownClientX, _mouseDownClientY,
                 windowListeners, far, farSincePress>>

\* The forwarding that returns early on a move that keeps the x of the press
\* ("Don't update on vertical mouse movement").
onMouseMoveCalls_NotOnVertical(type, clientX, clientY, dragging) ==
  IF "onMouseMove" \in handlers /\ clientX # _mouseDownClientX
  THEN <<[Call("onMouseMove", type, _getMousePosX(clientX),
               _getMousePosY(clientY))
            EXCEPT !.dragging = dragging]>>
  ELSE <<>>

\* The call of this._handlers.onMouseMove at the end of _mouseMove, made
\* after the test of delta; dragging: this._dragging after that test.
onMouseMoveCalls(type, clientX, clientY, dragging) ==
  IF "onMouseMove" \in handlers
  THEN <<[Call("onMouseMove", type, _getMousePosX(clientX),
               _getMousePosY(clientY))
            EXCEPT !.dragging = dragging]>>
  ELSE <<>>

\* MouseDragHandler.prototype._mouseMove for an event of window.
\* x, y: event.clientX, event.clientY, or those of event.changedTouches[0].
_mouseMove(type, x, y) ==
  LET clientX == IF type = "touchmove" THEN Floor(x) ELSE x
      clientY == IF type = "touchmove" THEN Floor(y) ELSE y
      exceeds == DeltaExceeds(clientX, clientY)
  IN  /\ _dragging' = _draggingAfterMove(_dragging, exceeds)
      /\ far' = (far \/ exceeds)
      /\ farSincePress' = (farSincePress \/ exceeds)
      /\ ev' = [type |-> type, target |-> "window", delivered |-> TRUE,
                x |-> x, y |-> y, far |-> far,
                exceeds |-> exceeds,
                calls |-> onMouseMoveCalls(type, clientX, clientY,
                                           _dragging')]
      /\ UNCHANGED <<_mouseDownClientX, _mouseDownClientY, windowListeners>>

\* The call of onMouseUp made after the listeners are removed and the flag
\* is cleared.
onMouseUpCalls_AfterCleanup(clientX, clientY) ==
  IF "onMouseUp" \in handlers
  THEN <<[Call("onMouseUp", "", _getMousePosX(clientX),
               _getMousePosY(clientY))
            EXCEPT !.dragging = FALSE, !.listening = FALSE]>>
  ELSE <<>>

\* The call of this._handlers.onMouseUp in _mouseUp, made before the
\* listeners are removed and before this._dragging is cleared.
onMouseUpCalls(clientX, clientY) ==
  IF "onMouseUp" \in handlers
  THEN <<Call("onMouseUp", "", _getMousePosX(clientX),
              _getMousePosY(clientY))>>
  ELSE <<>>

\* MouseDragHandler.prototype._mouseUp for an event of window.
\* x, y: event.clientX, event.clientY (undefined for blur), or those of
\* event.changedTouches[0].
_mouseUp(type, x, y) ==
  LET clientX == IF type = "touchend" THEN Floor(x) ELSE x
      clientY == IF type = "touchend" THEN Floor(y) ELSE y
  IN  /\ ev' = [type |-> type, target |-> "window", delivered |-> TRUE,
                x |-> x, y |-> y, far |-> far,
                exceeds |-> FALSE,
                calls |-> onMouseUpCalls(clientX, clientY)]
      /\ windowListeners' = ListenersAfterMouseUp(windowListeners)
      /\ _dragging' = FALSE
      /\ far' = FALSE
      /\ farSincePress' = FALSE
      /\ UNCHANGED <<_mouseDownClientX, _mouseDownClientY>>

\* The stage emits mousedown.
MouseDown ==
  \E target \in Nodes, x \in ClientXs, y \in ClientYs :
    /\ _mouseDown("mousedown", target, x, y)
    /\ UNCHANGED <<options, containerPos>>
    /\ UNCHANGED layerVars

\* The stage emits touchstart.
TouchStart ==
  \E target \in Nodes, x \in ClientXs, y \in ClientYs :
    /\ _mouseDown("touchstart", target, x, y)
    /\ UNCHANGED <<options, containerPos>>
    /\ UNCHANGED layerVars

\* window emits mousemove.
MouseMove ==
  \E x \in ClientXs, y \in ClientYs :
    /\ IF "mousemove" \in windowListeners
       THEN _mouseMove("mousemove", x, y)
       ELSE NotDelivered("mousemove")
    /\ UNCHANGED <<options, containerPos>>
    /\ UNCHANGED layerVars

\* window emits touchmove.
TouchMove ==
  \E x \in ClientXs, y \in ClientYs :
    /\ IF "touchmove" \in windowListeners
       THEN _mouseMove("touchmove", x, y)
       ELSE NotDelivered("touchmove")
    /\ UNCHANGED <<options, containerPos>>
    /\ UNCHANGED layerVars

\* window emits mouseup.
MouseUp ==
  \E x \in ClientXs, y \in ClientYs :
    /\ IF "mouseup" \in windowListeners
       THEN _mouseUp("mouseup", x, y)
       ELSE NotDelivered("mouseup")
    /\ UNCHANGED <<options, containerPos>>
    /\ UNCHANGED layerVars

\* window emits touchend.
TouchEnd ==
  \E x \in ClientXs, y \in ClientYs :
    /\ IF "touchend" \in windowListeners
       THEN _mouseUp("touchend", x, y)
       ELSE NotDelivered("touchend")
    /\ UNCHANGED <<options, containerPos>>
    /\ UNCHANGED layerVars

\* window emits blur: the event carries no coordinates.
Blur ==
  /\ IF "blur" \in windowListeners
     THEN _mouseUp("blur", NaN, NaN)
     ELSE NotDelivered("blur")
  /\ UNCHANGED <<options, containerPos>>
  /\ UNCHANGED layerVars

\* window emits touchcancel.
TouchCancel ==
  /\ IF "touchcancel" \in windowListeners
     THEN _mouseUp("touchcancel", NaN, NaN)
     ELSE NotDelivered("touchcancel")
  /\ UNCHANGED <<options, containerPos>>
  /\ UNCHANGED layerVars

\* The page moves the container of the stage.
ContainerMoves ==
  \E left \in 0 .. MaxLeft, top \in 0 .. MaxTop :
    /\ containerPos # [left |-> left, top |-> top]
    /\ containerPos' = [left |-> left, top |-> top]
    /\ ev' = [type |-> "container", target |-> "window", delivered |-> FALSE,
              x |-> NaN, y |-> NaN, far |-> far,
              exceeds |-> FALSE, calls |-> <<>>]
    /\ UNCHANGED <<options, _dragging, _mouseDownClientX, _mouseDownClientY,
                   windowListeners, far, farSincePress>>
    /\ UNCHANGED layerVars

Options == [respectNestedDraggables : BOOLEAN]

\* The state the constructor leaves, for the options it was given.
DragInit ==
  /\ options \in Options
  /\ _dragging = FALSE
  /\ _mouseDownClientX = Null
  /\ _mouseDownClientY = Null
  /\ windowListeners = {}
  /\ containerPos = [left |-> 0, top |-> 0]
  /\ far = FALSE
  /\ farSincePress = FALSE
  /\ ev = [type |-> "new", target |-> "window", delivered |-> FALSE,
           x |-> NaN, y |-> NaN, far |-> FALSE,
           exceeds |-> FALSE, calls |-> <<>>]

vars == <<layerVars, dragVars>>

\* The layer of a view, next to a drag handler built without options.
Init ==
  /\ LayerInit
  /\ DragInit
  /\ options = [respectNestedDraggables |-> FALSE]

Next ==
  \/ SegmentsAdd
  \/ SegmentsUpdate
  \/ SegmentsRemove
  \/ SegmentsHide
  \/ SegmentsRemoveAll
  \/ SegmentsDragged
  \/ UpdateSegments
  \/ Destroy
  \/ Scroll

\* The layer, driven by a store whose notifications name each segment once.
Spec == Init /\ [][Next]_vars

NextReAdd ==
  \/ SegmentsAdd
  \/ SegmentsAddExisting
  \/ SegmentsUpdate
  \/ SegmentsRemove
  \/ SegmentsHide
  \/ SegmentsRemoveAll
  \/ SegmentsDragged
  \/ UpdateSegments
  \/ Destroy
  \/ Scroll

\* The layer of a zoomable view.
ReAddInit ==
  /\ Init
  /\ viewName = "zoomview"

\* The layer, driven by a store that may also announce a stored segment again.
SpecReAdd == ReAddInit /\ [][NextReAdd]_vars

\* The drag handler, next to the layer of a zoomable view.
DragSpecInit ==
  /\ DragInit
  /\ LayerInit
  /\ viewName = "zoomview"

DragNext ==
  \/ MouseDown
  \/ TouchStart
  \/ MouseMove
  \/ TouchMove
  \/ MouseUp
  \/ TouchEnd
  \/ Blur
  \/ TouchCancel
  \/ ContainerMoves

\* The drag handler, driven by the events of the stage and of window.
DragSpec == DragSpecInit /\ [][DragNext]_vars

(***************************************************************************)
(* Properties of the layer.                                                *)
(***************************************************************************)
\* The handlers that claim C2 names.
LayerHandlers == Topics \cup {"updateSegments"}

\* The last operation created, repositioned or destroyed a shape.
Mutated ==
  \/ \E id \in SegmentIds : op.created[id] > 0 \/ op.destroyCalls[id] > 0
  \/ op.repositioned # {}

\* The shapes of segment id that were created, not destroyed, and that the
\* map or the layer still holds.
LiveShapes(id) ==
  (IF id \in DOMAIN segmentShapes /\ ~segmentShapes[id].destroyed THEN 1 ELSE 0)
    + orphans[id]

\* C1, as claimed: right after updateSegments(t0, t1) on a layer that was not
\* destroyed, the ids of the shape map are the ids of the segments that
\* find(t0, t1) returns and that are not hidden.
C1_ShapesAreFoundNotHidden ==
  (op.range # NoRange /\ ~tornDown) =>
    DOMAIN segmentShapes =
      {id \in find(segments, op.range[1], op.range[2]) : ~segments[id].hidden}

\* C1, amended: right after updateSegments(t0, t1) on a layer that was not
\* destroyed, the ids of the shape map are the ids of the segments that
\* find(t0, t1) returns, hidden or not.
C1_ShapesAreFound ==
  (op.range # NoRange /\ ~tornDown) =>
    DOMAIN segmentShapes = find(segments, op.range[1], op.range[2])

\* C1, witness: updateSegments returned, the map holds the shape of a hidden
\* segment, and the store holds a segment outside the range that has no shape.
C1_Witness ==
  /\ op.name = "updateSegments" /\ ~tornDown
  /\ \E id \in DOMAIN segmentShapes : segments[id].hidden
  /\ \E id \in StoreIds(segments) : id \notin DOMAIN segmentShapes
  /\ \E id \in SegmentIds : op.destroyCalls[id] > 0

\* C2: outside the overview, a handler that created, repositioned or
\* destroyed a shape issued exactly one redraw.
C2_ExactlyOneRedraw ==
  (viewName # "overview" /\ op.name \in LayerHandlers /\ op.handled /\ ~tornDown
     /\ Mutated) => op.draws = 1

\* C3: outside the overview, every shape of the map is a child of the layer
\* and not destroyed, and every child of the layer is in the map.
C3_MapMatchesLayer ==
  viewName # "overview" =>
    /\ \A id \in DOMAIN segmentShapes :
         segmentShapes[id].inLayer /\ ~segmentShapes[id].destroyed
    /\ \A id \in SegmentIds : orphans[id] = 0

\* C4: every segment identity has at most one live shape.
C4_AtMostOneLiveShape == \A id \in SegmentIds : LiveShapes(id) <= 1

\* C5: after destroy(), no notification of the store runs a handler of the
\* layer.
C5_NoHandlerAfterDestroy ==
  (tornDown /\ op.name \in Topics) => ~op.handled

\* C6: a destroy() that follows a destroy() calls destroy on no shape.
C6_SecondDestroyDoesNothing ==
  op.name = "destroy again" => \A id \in SegmentIds : op.destroyCalls[id] = 0

\* C11: in the overview no shape of the map is, or ever was, a child of the
\* layer, and no operation issues a redraw.
C11_OverviewNeverDrawn ==
  viewName = "overview" =>
    /\ \A id \in DOMAIN segmentShapes : ~segmentShapes[id].inLayer
    /\ \A id \in SegmentIds : orphans[id] = 0
    /\ op.draws = 0

\* C11, witness: in the overview a handler created a shape and repositioned
\* one, and the map holds shapes.
C11_Witness ==
  /\ viewName = "overview" /\ op.handled
  /\ \E id \in DOMAIN segmentShapes : op.created[id] = 1
  /\ op.repositioned # {}

\* C12: after the segments.hide handler returns for a list, outside the
\* overview, every listed segment is marked hidden, had it a shape or not,
\* every shape a listed segment had is hidden and still in the map, and one
\* redraw was issued.
C12_HideMarksEverySegment ==
  (op.name = "segments.hide" /\ op.handled /\ viewName # "overview") =>
    /\ \A id \in op.args : segments[id].hidden
    /\ \A id \in op.args \cap op.before :
         id \in DOMAIN segmentShapes /\ segmentShapes[id].hidden
    /\ \A id \in SegmentIds : op.destroyCalls[id] = 0
    /\ op.draws = 1

\* C13: after the segments.update handler returns for a segment, the shape
\* the segment had was destroyed, the segment has a shape in the map exactly
\* when it overlaps the frame of the view, and no shape was created for a
\* segment that does not overlap it.
C13_UpdateReplacesShape ==
  (op.name = "segments.update" /\ op.handled) =>
    \A id \in op.args :
      LET visible == isVisible(segments[id], frameStartTime, frameEndTime)
      IN  /\ id \in op.before => op.destroyCalls[id] = 1
          /\ id \in DOMAIN segmentShapes <=> visible
          /\ ~visible => op.created[id] = 0
          /\ visible => op.created[id] = 1

\* C13, witness: the updated segment had a shape, no longer overlaps the
\* frame, and has no shape.
C13_Witness ==
  /\ op.name = "segments.update" /\ op.handled
  /\ \E id \in op.args \cap op.before :
       /\ ~isVisible(segments[id], frameStartTime, frameEndTime)
       /\ id \notin DOMAIN segmentShapes
       /\ op.destroyCalls[id] = 1

\* The shapes that the segments.add handler must have created: one for each
\* added segment that overlaps the frame, none for the other added segments.
AddCreatesVisible ==
  \A id \in op.args :
    op.created[id] =
      IF isVisible(segments[id], frameStartTime, frameEndTime) THEN 1 ELSE 0

\* C14, as claimed: after the segments.add handler returns, outside the
\* overview, one shape was created for each added segment that overlaps the
\* frame, none for an added segment outside it, and exactly one redraw was
\* issued.
C14_AddDrawsOnce ==
  (op.name = "segments.add" /\ op.handled /\ viewName # "overview") =>
    (AddCreatesVisible /\ op.draws = 1)

\* C14, amended: after the segments.add handler returns, one shape was
\* created for each added segment that overlaps the frame, none for an added
\* segment outside it, and one redraw was issued when the view is not the
\* overview and the handler created, repositioned or destroyed a shape, none
\* otherwise.
C14_AddDrawsOnceIfMutated ==
  (op.name = "segments.add" /\ op.handled) =>
    /\ AddCreatesVisible
    /\ op.draws = IF viewName # "overview" /\ Mutated THEN 1 ELSE 0

\* C14, witness: the handler returned for a list with a segment that overlaps
\* the frame and one that does not, and issued one redraw.
C14_Witness ==
  /\ op.name = "segments.add" /\ op.handled /\ op.draws = 1
  /\ \E id \in op.args : op.created[id] = 1
  /\ \E id \in op.args :
       ~isVisible(segments[id], frameStartTime, frameEndTime)

\* What the segments.dragged handler does in either reading of C15: it
\* destroys no shape, and creates and repositions the shape of no other
\* segment.
DraggedTouchesOnlyItsSegment ==
  /\ \A id \in SegmentIds : op.destroyCalls[id] = 0
  /\ \A id \in SegmentIds \ op.args : op.created[id] = 0
  /\ op.repositioned = op.args

\* C15, as claimed: the segments.dragged handler, outside the overview,
\* repositions the shape of its segment only, creates and destroys no shape,
\* leaves the ids of the map as they were, and issues one redraw.
C15_DraggedCreatesNothing ==
  (op.name = "segments.dragged" /\ op.handled /\ viewName # "overview") =>
    /\ DraggedTouchesOnlyItsSegment
    /\ \A id \in op.args : op.created[id] = 0
    /\ DOMAIN segmentShapes = op.before
    /\ op.draws = 1

\* C15, amended: the segments.dragged handler repositions the shape of its
\* segment only and destroys no shape; it creates a shape for its segment
\* when the segment has none, which adds the segment's id to the map, and
\* creates no other shape; it issues one redraw outside the overview.
C15_DraggedCreatesWhenMissing ==
  (op.name = "segments.dragged" /\ op.handled) =>
    /\ DraggedTouchesOnlyItsSegment
    /\ \A id \in op.args :
         op.created[id] = IF id \in op.before THEN 0 ELSE 1
    /\ DOMAIN segmentShapes = op.before \cup op.args
    /\ op.draws = IF viewName # "overview" THEN 1 ELSE 0

\* C15, witness: the handler returned for a segment that had a shape, while
\* the map held the shape of another segment that does not overlap the frame.
C15_Witness ==
  /\ op.name = "segments.dragged" /\ op.handled /\ op.draws = 1
  /\ op.args \subseteq op.before
  /\ \E id \in DOMAIN segmentShapes \ op.args :
       ~isVisible(segments[id], frameStartTime, frameEndTime)

\* C16: the segments.remove handler calls destroy once on the shape of each
\* listed segment that has one and on no other shape, so a listed segment
\* without a shape changes nothing in the map or the layer; no handler calls
\* destroy twice for one segment, and before destroy() the map holds no
\* destroyed shape that a later removal could destroy again.
C16_RemoveWithoutShapeIsNoOp ==
  /\ (op.name = "segments.remove" /\ op.handled) =>
       /\ \A id \in SegmentIds :
            op.destroyCalls[id] =
              IF id \in op.args \cap op.before THEN 1 ELSE 0
       /\ \A id \in SegmentIds : op.created[id] = 0
       /\ op.repositioned = {}
       /\ DOMAIN segmentShapes = op.before \ op.args
  /\ op.name \in LayerHandlers =>
       \A id \in SegmentIds : op.destroyCalls[id] <= 1
  /\ ~tornDown => \A id \in DOMAIN segmentShapes : ~segmentShapes[id].destroyed

\* C16, witness: the handler returned for a segment that had no shape and
\* for one that had.
C16_Witness ==
  /\ op.name = "segments.remove" /\ op.handled
  /\ op.args \ op.before # {}
  /\ op.args \cap op.before # {}

(***************************************************************************)
(* Properties of the drag handler.                                         *)
(***************************************************************************)
PressTypes   == {"mousedown", "touchstart"}
MoveTypes    == {"mousemove", "touchmove"}
ReleaseTypes == {"mouseup", "touchend", "blur"}

\* MouseDragHandler.prototype.isDragging
isDragging == _dragging

\* C7: while a session is open (from the press that opens it to its release),
\* isDragging() is true exactly when some move of the session was more than
\* 3 pixels away from the recorded origin.
C7_DraggingOnceFar == windowListeners # {} => (isDragging = far)

\* C7, witness: the session is dragging and its last move was back within
\* 3 pixels of the origin.
C7_Witness ==
  /\ windowListeners # {} /\ isDragging
  /\ ev.type \in MoveTypes /\ ev.delivered /\ ~ev.exceeds

\* C8: a release leaves isDragging() false and no listener on window, and a
\* move that comes while no session is open calls no handler and leaves
\* isDragging() false.
C8_ReleaseEndsSession ==
  /\ (ev.type \in ReleaseTypes /\ ev.delivered) =>
       (~isDragging /\ windowListeners = {})
  /\ windowListeners = {} => ~isDragging
  /\ (ev.type \in MoveTypes /\ windowListeners = {}) =>
       (~ev.delivered /\ ev.calls = <<>>)

\* C8, witness: a move came after a press and its release, with no session
\* open, and was not delivered.
C8_Witness ==
  /\ _mouseDownClientX # Null /\ windowListeners = {}
  /\ ev.type \in MoveTypes /\ ~ev.delivered /\ ~isDragging

\* C9: every event that ends a session (release, loss of focus, touch
\* cancel) leaves no listener on window.
C9_SessionEndRemovesListeners ==
  ev.type \in ReleaseTypes \cup {"touchcancel"} => windowListeners = {}

\* C10: with the option to respect nested draggable markers, a press on a
\* draggable marker, or under one, calls no handler.
C10_DraggableMarkerPressIgnored ==
  (/\ options.respectNestedDraggables
   /\ ev.type \in PressTypes
   /\ getMarkerObject(ev.target) # "null"
   /\ draggable[getMarkerObject(ev.target)]) => ev.calls = <<>>

\* The coordinate that a handler reads from an event: floored for a touch.
Captured(type, v) ==
  IF type \in {"touchstart", "touchmove", "touchend"} THEN Floor(v) ELSE v

\* C17: every move delivered during a session calls onMouseMove exactly
\* once, with the type of the event and its coordinates relative to the
\* container, whatever its distance from the origin of the press.
C17_EveryMoveForwarded ==
  (ev.type \in MoveTypes /\ ev.delivered) =>
    /\ Len(ev.calls) = 1
    /\ ev.calls[1].handler = "onMouseMove"
    /\ ev.calls[1].kind = ev.type
    /\ ev.calls[1].x = Captured(ev.type, ev.x) - containerPos.left
    /\ ev.calls[1].y = Captured(ev.type, ev.y) - containerPos.top

\* C17, witness: a move straight up or down from the origin, within the
\* threshold, was forwarded while the container is not at the page's corner.
C17_Witness ==
  /\ ev.type \in MoveTypes /\ ev.delivered /\ ~ev.exceeds /\ ~isDragging
  /\ Captured(ev.type, ev.x) = _mouseDownClientX
  /\ Captured(ev.type, ev.y) # _mouseDownClientY
  /\ containerPos.left > 0
  /\ Len(ev.calls) = 1

\* C18: every captured press, mouse or touch, calls onMouseDown with the
\* recorded origin relative to the container: x = originX - left and
\* y = originY - top.
C18_PressReportsOrigin ==
  (ev.type \in PressTypes /\ ev.calls # <<>>) =>
    /\ ev.calls[1].handler = "onMouseDown"
    /\ ev.calls[1].x = _mouseDownClientX - containerPos.left
    /\ ev.calls[1].y = _mouseDownClientY - containerPos.top

\* C19: a release calls onMouseUp first, while the listeners of the session
\* are still on window and isDragging() still has the value of the session,
\* and only then removes the listeners and clears isDragging().
C19_ReleaseCallsBeforeCleanup ==
  (ev.type \in ReleaseTypes /\ ev.delivered) =>
    /\ Len(ev.calls) = 1
    /\ ev.calls[1].handler = "onMouseUp"
    /\ ev.calls[1].listening
    /\ ev.calls[1].dragging = ev.far
    /\ windowListeners = {}
    /\ ~isDragging

\* C19, witness: a session that exceeded the threshold was released, and
\* onMouseUp saw isDragging() true.
C19_Witness ==
  /\ ev.type \in ReleaseTypes /\ ev.delivered /\ ev.far
  /\ Len(ev.calls) = 1 /\ ev.calls[1].dragging
  /\ windowListeners = {} /\ ~isDragging

\* C20: isDragging() is true only if some move since the most recent press
\* was more than 3 pixels from the origin that press recorded; a press that
\* comes while a session is open starts from isDragging() false.
C20_DraggingOnlyIfFarSincePress == isDragging => farSincePress
====
